---------------------------- MODULE Spec2Model ----------------------------
(***************************************************************************)
(* A model of the timeprofiles package: the TimeProfile interval store     *)
(* (src/timeprofiles/timeprofile.py) and the module-level registry with    *)
(* its profile_method wrapper, its decorators and its reports              *)
(* (src/timeprofiles/timeprofilecollection.py).                            *)
(*                                                                         *)
(* Timestamps are integers.  The merge sweep only compares and copies      *)
(* timestamps, so it is exact on floats as well; get_bottleneck subtracts  *)
(* and sums, which is exact here and rounded on floats.                    *)
(***************************************************************************)
EXTENDS Integers, Sequences, FiniteSets, Bags, TLC

(***************************************************************************)
(* Bounds of the model.                                                    *)
(***************************************************************************)
\* longest list handed to the constructor (SpecMerge)
MaxInLen == 3
\* the timestamps of the lists handed to the constructor (SpecMerge)
InTimes == 0..3
\* the timestamps handed to TimeProfile.add (SpecProfile)
AddTimes == 0..1
\* most samples a TimeProfile holds at once (SpecProfile)
MaxLen == 2
\* most TimeProfile.clear() calls of a run (SpecProfile)
MaxClears == 1

\* longest list handed to the constructor (SpecSquash)
MaxSqLen == 2
\* the (min, max) ranges handed to get_squashed_arr / get_squashed_merged:
\* every pair of 0..2 (max = min and max < min among them) and the two
\* ranges of test_get_squashed_arr
SquashRanges == ((0..2) \X (0..2)) \cup {<<0, 4>>, <<2, 4>>}

\* longest list handed to the constructor (SpecInit)
MaxCtorLen == 2

\* threads that call instrumented functions at once (SpecConc)
NThreads == 2
\* invocations each thread makes (SpecConc)
MaxCalls == 2
\* calls the single caller makes (SpecSeq)
MaxSeqCalls == 2
\* most registry clear() calls of a run (SpecSeq)
MaxResets == 1
\* where perf_counter() stops advancing
MaxClock == 2

\* most samples of a TimeProfile of the registry when a report is made
\* (SpecReport)
MaxRepLen == 2

\* applications of profile_class_methods / profile_method (SpecInstr)
MaxApply == 2
\* invocations of member functions (SpecInstr)
MaxInvokes == 2

\* reads of profile_arr the reading thread makes (SpecRead)
MaxReads == 2

\* the instrumented functions
Funcs == {"f", "g"}
\* the function the threads of SpecConc invoke, and the value it returns
ConcFuncs == {"f"}
ConcResults == {"r1"}
\* the values an instrumented function returns (SpecSeq)
Results == {"r1", "r2"}

VARIABLES
    tp,         \* the TimeProfile under test (SpecMerge, SpecProfile)
    ret,        \* the last completed call: its name, arguments, outcome, value
    nclears,    \* TimeProfile.clear() calls so far (SpecProfile)
    profiles,   \* the registry: function -> the TimeProfile object it maps to
    heap,       \* the TimeProfile objects made by the registry, by identity
    clock,      \* the last value perf_counter() returned
    pc,         \* where each thread stands in wrapper / add / TimeProfile.add
    loc,        \* each thread's local variables
    out,        \* each thread's last finished call, as its caller saw it
    hist,       \* history of the run, read by the properties only
    classes     \* the decorated classes: markers, member functions (SpecInstr)

profileVars == <<tp, ret, nclears>>
registryVars == <<profiles, heap, clock, pc, loc, out, hist>>
instrVars == <<classes>>
vars == <<tp, ret, nclears, profiles, heap, clock, pc, loc, out, hist, classes>>

(***************************************************************************)
(* Values.                                                                 *)
(***************************************************************************)
\* Python's None, as the value of __starts_arr / __ends_arr before the first read
NoneVal == [kind |-> "None", data |-> <<>>]

\* np.array(list): an ndarray holding the list's elements in order
NpArray(list) == [kind |-> "ndarray", data |-> list]

\* ndarray - scalar, elementwise
ArrSubScalar(arr, x) ==
    [kind |-> "ndarray", data |-> [i \in DOMAIN arr.data |-> arr.data[i] - x]]

\* ndarray - ndarray, elementwise (equal shapes)
ArrSub(a, b) ==
    [kind |-> "ndarray", data |-> [i \in DOMAIN a.data |-> a.data[i] - b.data[i]]]

Abs(x) == IF x < 0 THEN -x ELSE x

Sign(x) == IF x < 0 THEN -1 ELSE IF x > 0 THEN 1 ELSE 0

RECURSIVE Gcd(_, _)
Gcd(a, b) == IF b = 0 THEN a ELSE Gcd(b, a % b)

\* the quotient x / y (y # 0) as a fraction in lowest terms with den > 0;
\* the float the code computes is this number rounded to 53 bits
Frac(x, y) ==
    LET g == Gcd(Abs(x), Abs(y))
        sg == IF y < 0 THEN -1 ELSE 1
    IN  [num |-> (sg * x) \div g, den |-> (sg * y) \div g]

\* numpy's x / y on array elements: division by zero raises nothing and
\* gives inf, -inf or nan, written here as 1/0, -1/0 and 0/0
NpTrueDivide(x, y) == IF y = 0 THEN [num |-> Sign(x), den |-> 0] ELSE Frac(x, y)

\* ndarray / scalar, elementwise
ArrDivScalar(arr, y) ==
    [kind |-> "ndarray", data |-> [i \in DOMAIN arr.data |-> NpTrueDivide(arr.data[i], y)]]

SeqMin(s) == CHOOSE x \in {s[i] : i \in DOMAIN s} : \A i \in DOMAIN s : x <= s[i]
SeqMax(s) == CHOOSE x \in {s[i] : i \in DOMAIN s} : \A i \in DOMAIN s : x >= s[i]

RECURSIVE SeqSum(_)
SeqSum(s) == IF s = <<>> THEN 0 ELSE Head(s) + SeqSum(Tail(s))

\* insertion of x into an ascending sequence, after the elements equal to it
RECURSIVE Insert(_, _)
Insert(x, s) ==
    IF s = <<>> THEN <<x>>
    ELSE IF x < Head(s) THEN <<x>> \o s
    ELSE <<Head(s)>> \o Insert(x, Tail(s))

\* sorted(list): the elements in ascending order
RECURSIVE sorted(_)
sorted(s) == IF s = <<>> THEN <<>> ELSE Insert(s[Len(s)], sorted(SubSeq(s, 1, Len(s) - 1)))

\* what a call hands back: the object after the call, the exception raised
\* ("none" when it returned) and the value returned
Outcome(obj, exc, val) == [tp |-> obj, exc |-> exc, val |-> val]

(***************************************************************************)
(* TimeProfile.                                                            *)
(***************************************************************************)
\* the fields __init__ sets after it has accepted starts and ends;
\* ends_is_None tells that __ends is None and not a list (ends is <<>> then)
TimeProfileFields(starts, ends) ==
    [starts |-> starts, ends |-> ends, ends_is_None |-> FALSE,
     starts_arr |-> NoneVal, ends_arr |-> NoneVal, updated_arr |-> FALSE,
     starts_merged |-> <<>>, ends_merged |-> <<>>, updated_merged |-> FALSE]

\* TimeProfile(): both arguments absent
TimeProfileNew == TimeProfileFields(<<>>, <<>>)

\* TimeProfile(starts, ends) with two lists: whether __init__ raises
TimeProfileInitRaises(starts, ends) ==
    \/ (starts # <<>>) # (ends # <<>>)
    \/ (starts # <<>> /\ ends # <<>> /\ Len(starts) # Len(ends))
    \/ \E i \in 1..Len(starts) : ends[i] < starts[i]

\* TimeProfile(starts, ends) with two lists
TimeProfileInit(starts, ends) ==
    IF TimeProfileInitRaises(starts, ends)
    THEN Outcome(NoneVal, "Exception", NoneVal)
    ELSE Outcome(TimeProfileFields(starts, ends), "none", NoneVal)

\* an argument of the constructor: a list, or None when it is left out
Given(list) == [given |-> TRUE, list |-> list]
Absent == [given |-> FALSE, list |-> <<>>]

\* bool(x) of an argument: False for None and for the empty list
Truthy(x) == x.given /\ x.list # <<>>

\* TimeProfile(starts, ends), either argument a list or None.  Line 19
\* compares the truth values of the arguments, so [] passes with None;
\* line 25 takes len(starts), a TypeError on None; lines 28-29 store the
\* arguments as they are
TimeProfileInitOpt(starts, ends) ==
    IF \/ Truthy(starts) # Truthy(ends)
       \/ (Truthy(starts) /\ Truthy(ends) /\ Len(starts.list) # Len(ends.list))
    THEN Outcome(NoneVal, "Exception", NoneVal)
    ELSE IF ~starts.given /\ ~ends.given
    THEN Outcome(TimeProfileNew, "none", NoneVal)
    ELSE IF ~starts.given
    THEN Outcome(NoneVal, "TypeError", NoneVal)
    ELSE IF \E i \in 1..Len(starts.list) : ends.list[i] < starts.list[i]
    THEN Outcome(NoneVal, "Exception", NoneVal)
    ELSE Outcome([TimeProfileFields(starts.list, ends.list)
                     EXCEPT !.ends_is_None = ~ends.given],
                 "none", NoneVal)

\* len(self)
TimeProfile_len(self) == Len(self.starts)

\* self.profile
TimeProfile_profile(self) ==
    <<self.starts, IF self.ends_is_None THEN NoneVal ELSE self.ends>>

\* self.__update_arr()
update_arr(self) ==
    [self EXCEPT !.starts_arr = NpArray(self.starts),
                 !.ends_arr = NpArray(self.ends),
                 !.updated_arr = TRUE]

\* self.profile_arr: the object after the read
profile_arr_obj(self) == IF ~self.updated_arr THEN update_arr(self) ELSE self

\* self.profile_arr
TimeProfile_profile_arr(self) ==
    LET o == profile_arr_obj(self)
    IN  Outcome(o, "none", <<o.starts_arr, o.ends_arr>>)

\* the loop with >= for > in its test: touching intervals are kept apart
RECURSIVE MergeLoop_ge(_, _, _, _, _, _)
MergeLoop_ge(starts_sorted, ends_sorted, n, i, j, acc) ==
    IF i >= n THEN acc
    ELSE IF i = n - 1 \/ starts_sorted[i + 2] >= ends_sorted[i + 1]
         THEN MergeLoop_ge(starts_sorted, ends_sorted, n, i + 1, i + 1,
                           <<Append(acc[1], starts_sorted[j + 1]),
                             Append(acc[2], ends_sorted[i + 1])>>)
         ELSE MergeLoop_ge(starts_sorted, ends_sorted, n, i + 1, j, acc)

\* the loop closing a segment with the start of its last sample, not of its
\* first
RECURSIVE MergeLoop_last_start(_, _, _, _, _, _)
MergeLoop_last_start(starts_sorted, ends_sorted, n, i, j, acc) ==
    IF i >= n THEN acc
    ELSE IF i = n - 1 \/ starts_sorted[i + 2] > ends_sorted[i + 1]
         THEN MergeLoop_last_start(starts_sorted, ends_sorted, n, i + 1, i + 1,
                                   <<Append(acc[1], starts_sorted[i + 1]),
                                     Append(acc[2], ends_sorted[i + 1])>>)
         ELSE MergeLoop_last_start(starts_sorted, ends_sorted, n, i + 1, j, acc)

\* the loop of __update_merged from index i on, j the first index of the open
\* segment (both 0-based as in the source), acc the merged lists so far
RECURSIVE MergeLoop(_, _, _, _, _, _)
MergeLoop(starts_sorted, ends_sorted, n, i, j, acc) ==
    IF i >= n THEN acc
    ELSE IF i = n - 1 \/ starts_sorted[i + 2] > ends_sorted[i + 1]
         THEN MergeLoop(starts_sorted, ends_sorted, n, i + 1, i + 1,
                        <<Append(acc[1], starts_sorted[j + 1]),
                          Append(acc[2], ends_sorted[i + 1])>>)
         ELSE MergeLoop(starts_sorted, ends_sorted, n, i + 1, j, acc)

\* __update_merged sweeping the lists in recording order, without sorted()
update_merged_unsorted(self) ==
    LET n == TimeProfile_len(self)
        m == MergeLoop(self.starts, self.ends, n, 0, 0, <<<<>>, <<>>>>)
    IN  [self EXCEPT !.starts_merged = m[1],
                     !.ends_merged = m[2],
                     !.updated_merged = TRUE]

\* self.__update_merged()
update_merged(self) ==
    LET n == TimeProfile_len(self)
        m == MergeLoop(sorted(self.starts), sorted(self.ends), n, 0, 0, <<<<>>, <<>>>>)
    IN  [self EXCEPT !.starts_merged = m[1],
                     !.ends_merged = m[2],
                     !.updated_merged = TRUE]

\* self.profile_merged: the object after the read
profile_merged_obj(self) == IF ~self.updated_merged THEN update_merged(self) ELSE self

\* self.profile_merged
TimeProfile_profile_merged(self) ==
    LET o == profile_merged_obj(self)
    IN  Outcome(o, "none", <<o.starts_merged, o.ends_merged>>)

\* self.__starts += [start]
add_starts(self, start) == [self EXCEPT !.starts = Append(self.starts, start)]

\* self.__ends += [end]
add_ends(self, end) == [self EXCEPT !.ends = Append(self.ends, end)]

\* self.__updated_arr = False
reset_updated_arr(self) == [self EXCEPT !.updated_arr = FALSE]

\* self.__updated_merged = False
reset_updated_merged(self) == [self EXCEPT !.updated_merged = FALSE]

\* add's stores without the two flag resets
add_store_flagless(self, start, end) == add_ends(add_starts(self, start), end)

\* the lines of add after the check of end < start
add_store(self, start, end) ==
    reset_updated_merged(reset_updated_arr(add_ends(add_starts(self, start), end)))

\* add with its check after the stores
TimeProfile_add_late_check(self, start, end) ==
    Outcome(add_store(self, start, end),
            IF end < start THEN "Exception" ELSE "none", NoneVal)

\* self.add(start, end); when __ends is None line 78 raises TypeError after
\* line 77 has extended __starts
TimeProfile_add(self, start, end) ==
    IF end < start
    THEN Outcome(self, "Exception", NoneVal)
    ELSE IF self.ends_is_None
    THEN Outcome(add_starts(self, start), "TypeError", NoneVal)
    ELSE Outcome(add_store(self, start, end), "none", NoneVal)

\* self.clear()
TimeProfile_clear(self) ==
    Outcome([self EXCEPT !.starts = <<>>, !.ends = <<>>, !.ends_is_None = FALSE,
                         !.updated_arr = FALSE, !.updated_merged = FALSE],
            "none", NoneVal)

\* min() as the first start recorded, not the smallest
TimeProfile_min_first(self) ==
    LET o == profile_arr_obj(self)
    IN  IF o.starts_arr.data = <<>>
        THEN Outcome(o, "ValueError", NoneVal)
        ELSE Outcome(o, "none", o.starts_arr.data[1])

\* self.min(): ndarray.min() raises ValueError on an empty array
TimeProfile_min(self) ==
    LET o == profile_arr_obj(self)
    IN  IF o.starts_arr.data = <<>>
        THEN Outcome(o, "ValueError", NoneVal)
        ELSE Outcome(o, "none", SeqMin(o.starts_arr.data))

\* self.max()
TimeProfile_max(self) ==
    LET o == profile_arr_obj(self)
    IN  IF o.ends_arr.data = <<>>
        THEN Outcome(o, "ValueError", NoneVal)
        ELSE Outcome(o, "none", SeqMax(o.ends_arr.data))

\* zip(a, b) stops at the shorter list
ZipLen(a, b) == IF Len(a) <= Len(b) THEN Len(a) ELSE Len(b)

\* the bottleneck as the sum of the raw durations, overlaps counted twice
get_bottleneck_raw(self) ==
    Outcome(self, "none",
            SeqSum([i \in 1..ZipLen(self.starts, self.ends) |->
                        self.ends[i] - self.starts[i]]))

\* self.get_bottleneck()
TimeProfile_get_bottleneck(self) ==
    LET o == profile_merged_obj(self)
        k == ZipLen(o.starts_merged, o.ends_merged)
    IN  Outcome(o, "none",
                SeqSum([i \in 1..k |-> o.ends_merged[i] - o.starts_merged[i]]))

(***************************************************************************)
(* The two earlier bottleneck implementations of the repository: the       *)
(* get_bottleneck of the first TimeProfile (src/timeprofile.py) and the    *)
(* __calculate_bottleneck of TimeProfiler (src/simpleprofiler.py).         *)
(***************************************************************************)
\* np.sort(arr): a sorted copy
np_sort(arr) == NpArray(sorted(arr.data))

\* the loop of the first TimeProfile.get_bottleneck from index i on, j the
\* first index of the open segment (both 0-based as in the source)
RECURSIVE SweepLoop(_, _, _, _, _, _)
SweepLoop(starts, ends, n, i, j, bottleneck) ==
    IF i >= n THEN bottleneck
    ELSE IF i = n - 1 \/ starts.data[i + 2] > ends.data[i + 1]
         THEN SweepLoop(starts, ends, n, i + 1, i + 1,
                        bottleneck + (ends.data[i + 1] - starts.data[j + 1]))
         ELSE SweepLoop(starts, ends, n, i + 1, j, bottleneck)

\* the sweep over the arrays as recorded, without np.sort
get_bottleneck_unsorted(self) ==
    LET o == profile_arr_obj(self)
        n == Len(o.starts_arr.data)
    IN  Outcome(o, "none", SweepLoop(o.starts_arr, o.ends_arr, n, 0, 0, 0))

\* the first TimeProfile's self.get_bottleneck()
TimeProfile0_get_bottleneck(self) ==
    LET o == profile_arr_obj(self)
        n == Len(o.starts_arr.data)
        starts == np_sort(o.starts_arr)
        ends == np_sort(o.ends_arr)
    IN  Outcome(o, "none", SweepLoop(starts, ends, n, 0, 0, 0))

\* the loop of TimeProfiler.__calculate_bottleneck over its two sorted lists
RECURSIVE CalculateLoop(_, _, _, _, _, _)
CalculateLoop(starts, ends, n, i, j, bottleneck) ==
    IF i >= n THEN bottleneck
    ELSE IF i = n - 1 \/ starts[i + 2] > ends[i + 1]
         THEN CalculateLoop(starts, ends, n, i + 1, i + 1,
                            bottleneck + (ends[i + 1] - starts[j + 1]))
         ELSE CalculateLoop(starts, ends, n, i + 1, j, bottleneck)

\* TimeProfiler.__calculate_bottleneck(profile), profile a list of
\* (start, end) pairs
calculate_bottleneck(profile) ==
    LET n == Len(profile)
        starts == [k \in 1..n |-> profile[k][1]]
        ends == [k \in 1..n |-> profile[k][2]]
    IN  CalculateLoop(sorted(starts), sorted(ends), n, 0, 0, 0)

\* self.get_elapsed_arr()
TimeProfile_get_elapsed_arr(self) ==
    LET o == profile_arr_obj(self)
    IN  Outcome(o, "none", ArrSub(o.ends_arr, o.starts_arr))

\* get_squashed_arr with its results clamped to [0, 1]
get_squashed_arr_clamped(self, min, max) ==
    LET o == profile_arr_obj(self)
        time_frame == max - min
        clamp(x) == IF x < min THEN min ELSE IF x > max THEN max ELSE x
    IN  Outcome(o, "none",
                <<ArrDivScalar(ArrSubScalar(NpArray([i \in DOMAIN o.starts_arr.data |->
                                                        clamp(o.starts_arr.data[i])]), min),
                               time_frame),
                  ArrDivScalar(ArrSubScalar(NpArray([i \in DOMAIN o.ends_arr.data |->
                                                        clamp(o.ends_arr.data[i])]), min),
                               time_frame)>>)

\* self.get_squashed_arr(min, max)
TimeProfile_get_squashed_arr(self, min, max) ==
    LET o == profile_arr_obj(self)
        time_frame == max - min
    IN  Outcome(o, "none",
                <<ArrDivScalar(ArrSubScalar(o.starts_arr, min), time_frame),
                  ArrDivScalar(ArrSubScalar(o.ends_arr, min), time_frame)>>)

\* self.get_squashed_merged(min, max): Python's / raises ZeroDivisionError
\* when the first element of a list comprehension is divided by zero
TimeProfile_get_squashed_merged(self, min, max) ==
    LET o == profile_merged_obj(self)
        time_frame == max - min
    IN  IF time_frame = 0 /\ (o.starts_merged # <<>> \/ o.ends_merged # <<>>)
        THEN Outcome(o, "ZeroDivisionError", NoneVal)
        ELSE Outcome(o, "none",
                     <<[i \in DOMAIN o.starts_merged |->
                            Frac(o.starts_merged[i] - min, time_frame)],
                       [i \in DOMAIN o.ends_merged |->
                            Frac(o.ends_merged[i] - min, time_frame)]>>)


(***************************************************************************)
(* Calls on one TimeProfile, each a whole call (single-threaded use).      *)
(***************************************************************************)
\* the record of a completed call
Call(op, args, r) == [op |-> op, args |-> args, exc |-> r.exc, val |-> r.val]

\* no call yet
NoCall == [op |-> "none", args |-> <<>>, exc |-> "none", val |-> NoneVal]

\* the lists a constructor call is given: every list of at most MaxInLen
\* timestamps of InTimes
InLists == UNION {[1..n -> InTimes] : n \in 0..MaxInLen}

\* the lists of test_init and test_get_bottleneck
TestInputs ==
    { <<<<0, 1>>, <<3, 4>>>>, <<<<0, 1, 6>>, <<3, 4, 8>>>> }

\* a caller constructs TimeProfile(starts, ends) from one of the pairs of
\* lists ins and gets an object
ConstructFrom(ins) ==
    \E in \in ins :
        /\ TimeProfileInit(in[1], in[2]).exc = "none"
        /\ tp = TimeProfileInit(in[1], in[2]).tp
        /\ ret = [op |-> "init", args |-> in, exc |-> "none", val |-> NoneVal]

Construct == ConstructFrom((InLists \X InLists) \cup TestInputs)

\* the lists of SpecSquash: every list of at most MaxSqLen timestamps
SqLists == UNION {[1..n -> InTimes] : n \in 0..MaxSqLen}

\* the arguments of SpecInit's constructor calls: None or a list of at most
\* MaxCtorLen timestamps
CtorArgs == {Absent} \cup {Given(l) : l \in UNION {[1..n -> AddTimes] : n \in 0..MaxCtorLen}}

\* tp = TimeProfile(starts, ends): tp is bound to the new object unless the
\* constructor raises
Reconstruct ==
    \E starts, ends \in CtorArgs :
        LET r == TimeProfileInitOpt(starts, ends)
        IN  /\ tp' = IF r.exc = "none" THEN r.tp ELSE tp
            /\ ret' = Call("init", <<starts, ends>>, r)
            /\ UNCHANGED nclears
            /\ UNCHANGED <<registryVars, instrVars>>

\* tp.add(start, end)
Add ==
    \E start, end \in AddTimes :
        /\ end >= start => TimeProfile_len(tp) < MaxLen
        /\ LET r == TimeProfile_add(tp, start, end)
           IN  /\ tp' = r.tp
               /\ ret' = Call("add", <<start, end>>, r)
        /\ UNCHANGED nclears
        /\ UNCHANGED <<registryVars, instrVars>>

\* tp.clear()
Clear ==
    /\ nclears < MaxClears
    /\ LET r == TimeProfile_clear(tp)
       IN  /\ tp' = r.tp
           /\ ret' = Call("clear", <<>>, r)
    /\ nclears' = nclears + 1
    /\ UNCHANGED <<registryVars, instrVars>>

\* len(tp)
QueryLen ==
    /\ ret' = [op |-> "len", args |-> <<>>, exc |-> "none", val |-> TimeProfile_len(tp)]
    /\ UNCHANGED <<tp, nclears>>
    /\ UNCHANGED <<registryVars, instrVars>>

\* tp.profile
QueryProfile ==
    /\ ret' = [op |-> "profile", args |-> <<>>, exc |-> "none",
               val |-> TimeProfile_profile(tp)]
    /\ UNCHANGED <<tp, nclears>>
    /\ UNCHANGED <<registryVars, instrVars>>

\* tp.profile_arr
QueryProfileArr ==
    LET r == TimeProfile_profile_arr(tp)
    IN  /\ tp' = r.tp
        /\ ret' = Call("profile_arr", <<>>, r)
        /\ UNCHANGED nclears
        /\ UNCHANGED <<registryVars, instrVars>>

\* tp.profile_merged
QueryProfileMerged ==
    LET r == TimeProfile_profile_merged(tp)
    IN  /\ tp' = r.tp
        /\ ret' = Call("profile_merged", <<>>, r)
        /\ UNCHANGED nclears
        /\ UNCHANGED <<registryVars, instrVars>>

\* tp.get_bottleneck()
QueryBottleneck ==
    LET r == TimeProfile_get_bottleneck(tp)
    IN  /\ tp' = r.tp
        /\ ret' = Call("get_bottleneck", <<>>, r)
        /\ UNCHANGED nclears
        /\ UNCHANGED <<registryVars, instrVars>>

\* tp.get_elapsed_arr()
QueryElapsedArr ==
    LET r == TimeProfile_get_elapsed_arr(tp)
    IN  /\ tp' = r.tp
        /\ ret' = Call("get_elapsed_arr", <<>>, r)
        /\ UNCHANGED nclears
        /\ UNCHANGED <<registryVars, instrVars>>

\* tp.min()
QueryMin ==
    LET r == TimeProfile_min(tp)
    IN  /\ tp' = r.tp
        /\ ret' = Call("min", <<>>, r)
        /\ UNCHANGED nclears
        /\ UNCHANGED <<registryVars, instrVars>>

\* tp.max()
QueryMax ==
    LET r == TimeProfile_max(tp)
    IN  /\ tp' = r.tp
        /\ ret' = Call("max", <<>>, r)
        /\ UNCHANGED nclears
        /\ UNCHANGED <<registryVars, instrVars>>

\* tp.get_squashed_arr(min, max)
QuerySquashedArr ==
    \E r \in SquashRanges :
        LET res == TimeProfile_get_squashed_arr(tp, r[1], r[2])
        IN  /\ tp' = res.tp
            /\ ret' = Call("get_squashed_arr", r, res)
            /\ UNCHANGED nclears
            /\ UNCHANGED <<registryVars, instrVars>>

\* tp.get_squashed_merged(min, max)
QuerySquashedMerged ==
    \E r \in SquashRanges :
        LET res == TimeProfile_get_squashed_merged(tp, r[1], r[2])
        IN  /\ tp' = res.tp
            /\ ret' = Call("get_squashed_merged", r, res)
            /\ UNCHANGED nclears
            /\ UNCHANGED <<registryVars, instrVars>>

Query ==
    \/ QueryLen
    \/ QueryProfile
    \/ QueryProfileArr
    \/ QueryProfileMerged
    \/ QueryBottleneck
    \/ QueryElapsedArr
    \/ QueryMin
    \/ QueryMax

(***************************************************************************)
(* The registry (the module-level profiles dict), add, clear and the       *)
(* wrapper of profile_method, a step per line that reads or writes state   *)
(* other threads see.  A step is atomic as one bytecode is under the       *)
(* interpreter lock: list += [x] extends the list in place, dict lookup,   *)
(* store and clear are single operations.                                  *)
(***************************************************************************)
Threads == 1..NThreads

\* f not in profiles
NoEntry == 0

\* the keys of the dict
Keys(d) == {f \in Funcs : d[f] # NoEntry}

\* profiles = {}
EmptyDict == [f \in Funcs |-> NoEntry]

\* what a direct caller of add sees of the registry before its call
NoSnapshot == [profiles |-> EmptyDict, heap |-> <<>>]

\* the registry as a caller sees it before a call
Snapshot == [profiles |-> profiles, heap |-> heap]

\* a thread's locals outside any call
LocInit ==
    [mode |-> "none", f |-> "none", start |-> 0, end |-> 0,
     result |-> "unbound", fret |-> "none", fexc |-> "none",
     tp |-> 0, exc |-> "none", pre |-> NoSnapshot]

\* no call finished yet
OutInit ==
    [mode |-> "none", f |-> "none", start |-> 0, end |-> 0,
     exc |-> "none", val |-> "None", fret |-> "none", fexc |-> "none",
     pre |-> NoSnapshot]

HistInit ==
    [invoked |-> [f \in Funcs |-> 0],   \* wrapper invocations finished, per function
     raised |-> 0,                      \* of these, the ones whose function raised
     added |-> [f \in Funcs |-> 0],     \* direct add calls that returned, per function
     installs |-> [f \in Funcs |-> 0],  \* TimeProfile objects stored under the key
     passed |-> <<>>,                   \* per object, the bag of pairs add accepted
     calls |-> [t \in Threads |-> 0],   \* calls finished, per thread
     keyerrors |-> 0,                   \* profiles[f] lookups that found no entry
     resets |-> 0,                      \* clear() calls of the registry
     atReset |-> <<>>]                  \* the objects as they were at the last clear()

\* perf_counter(): never less than the value read before
PerfCounter == {clock, IF clock < MaxClock THEN clock + 1 ELSE clock}

\* the wrapper without try/finally: a raise of f skips the timing lines
AfterCall_no_finally(l) == IF l.fexc # "none" THEN "w_exit" ELSE "w_end"

\* where the wrapper goes when f has returned or raised: try/finally runs
\* the timing lines in both cases
AfterCall(l) == "w_end"

\* the wrapper without its return statement: the caller gets None
WrapperOutcome_no_return(l) ==
    IF l.exc # "none" THEN [exc |-> l.exc, val |-> "None"]
    ELSE IF l.fexc # "none" THEN [exc |-> l.fexc, val |-> "None"]
    ELSE [exc |-> "none", val |-> "None"]

\* what the wrapper hands its caller once the finally block is done: an
\* exception raised inside the finally block, else f's own exception, else
\* result
WrapperOutcome(l) ==
    IF l.exc # "none" THEN [exc |-> l.exc, val |-> "None"]
    ELSE IF l.fexc # "none" THEN [exc |-> l.fexc, val |-> "None"]
    ELSE [exc |-> "none", val |-> l.result]

\* what add hands its caller: None, or the exception of TimeProfile.add
AddOutcome(l) == [exc |-> l.exc, val |-> "None"]

Goto(t, label) == pc' = [pc EXCEPT ![t] = label]

\* wrapper, line 64: start = perf_counter(); seen is what the caller saw of
\* the registry before the call (kept for the properties of SpecSeq)
Invoke(t, limit, fs, seen) ==
    /\ pc[t] = "idle"
    /\ hist.calls[t] < limit
    /\ \E f \in fs, now \in PerfCounter :
          /\ loc' = [loc EXCEPT ![t] = [LocInit EXCEPT !.mode = "wrapper",
                                                       !.f = f, !.start = now,
                                                       !.pre = seen]]
          /\ clock' = now
    /\ Goto(t, "w_call")
    /\ UNCHANGED <<profiles, heap, out, hist>>
    /\ UNCHANGED <<profileVars, instrVars>>

\* wrapper, line 66: f returns a value
FReturn(t, rs) ==
    /\ pc[t] = "w_call"
    /\ \E v \in rs :
          loc' = [loc EXCEPT ![t].result = v, ![t].fret = v]
    /\ Goto(t, AfterCall(loc'[t]))
    /\ UNCHANGED <<profiles, heap, clock, out, hist>>
    /\ UNCHANGED <<profileVars, instrVars>>

\* wrapper, line 66: f raises
FRaise(t) ==
    /\ pc[t] = "w_call"
    /\ loc' = [loc EXCEPT ![t].fexc = "FExc"]
    /\ Goto(t, AfterCall(loc'[t]))
    /\ UNCHANGED <<profiles, heap, clock, out, hist>>
    /\ UNCHANGED <<profileVars, instrVars>>

\* wrapper, lines 68-69: end = perf_counter(), then add(f, start, end) is entered
WEnd(t) ==
    /\ pc[t] = "w_end"
    /\ \E now \in PerfCounter :
          /\ loc' = [loc EXCEPT ![t].end = now]
          /\ clock' = now
    /\ Goto(t, "add_check")
    /\ UNCHANGED <<profiles, heap, out, hist>>
    /\ UNCHANGED <<profileVars, instrVars>>

\* a caller calls add(f, start, end) itself
DirectAdd(t, limit) ==
    /\ pc[t] = "idle"
    /\ hist.calls[t] < limit
    /\ \E f \in Funcs, start \in AddTimes, end \in AddTimes :
          loc' = [loc EXCEPT ![t] =
                     [LocInit EXCEPT !.mode = "add", !.f = f,
                                     !.start = start, !.end = end,
                                     !.pre = Snapshot]]
    /\ Goto(t, "add_check")
    /\ UNCHANGED <<profiles, heap, clock, out, hist>>
    /\ UNCHANGED <<profileVars, instrVars>>

\* add, line 40: if f not in profiles
AddCheck(t) ==
    /\ pc[t] = "add_check"
    /\ Goto(t, IF profiles[loc[t].f] = NoEntry THEN "add_install" ELSE "add_lookup")
    /\ UNCHANGED <<profiles, heap, clock, loc, out, hist>>
    /\ UNCHANGED <<profileVars, instrVars>>

\* add, line 41: profiles[f] = TimeProfile()
AddInstall(t) ==
    /\ pc[t] = "add_install"
    /\ heap' = Append(heap, TimeProfileNew)
    /\ profiles' = [profiles EXCEPT ![loc[t].f] = Len(heap) + 1]
    /\ hist' = [hist EXCEPT !.installs[loc[t].f] = @ + 1,
                            !.passed = Append(@, EmptyBag)]
    /\ Goto(t, "add_lookup")
    /\ UNCHANGED <<clock, loc, out>>
    /\ UNCHANGED <<profileVars, instrVars>>

\* add, line 42: profiles[f], the object add is then called on
AddLookup(t) ==
    /\ pc[t] = "add_lookup"
    /\ IF profiles[loc[t].f] = NoEntry
       THEN /\ loc' = [loc EXCEPT ![t].exc = "KeyError"]
            /\ hist' = [hist EXCEPT !.keyerrors = @ + 1]
            /\ Goto(t, "exit")
       ELSE /\ loc' = [loc EXCEPT ![t].tp = profiles[loc[t].f]]
            /\ hist' = hist
            /\ Goto(t, "tp_check")
    /\ UNCHANGED <<profiles, heap, clock, out>>
    /\ UNCHANGED <<profileVars, instrVars>>

\* TimeProfile.add, lines 75-76: if end < start: raise
TpCheck(t) ==
    /\ pc[t] = "tp_check"
    /\ IF loc[t].end < loc[t].start
       THEN /\ loc' = [loc EXCEPT ![t].exc = "Exception"]
            /\ hist' = hist
            /\ Goto(t, "exit")
       ELSE /\ loc' = loc
            /\ hist' = [hist EXCEPT !.passed[loc[t].tp] =
                                        @ (+) SetToBag({<<loc[t].start, loc[t].end>>})]
            /\ Goto(t, "tp_starts")
    /\ UNCHANGED <<profiles, heap, clock, out>>
    /\ UNCHANGED <<profileVars, instrVars>>

\* TimeProfile.add, line 77
TpStarts(t) ==
    /\ pc[t] = "tp_starts"
    /\ heap' = [heap EXCEPT ![loc[t].tp] = add_starts(@, loc[t].start)]
    /\ Goto(t, "tp_ends")
    /\ UNCHANGED <<profiles, clock, loc, out, hist>>
    /\ UNCHANGED <<profileVars, instrVars>>

\* TimeProfile.add, line 78
TpEnds(t) ==
    /\ pc[t] = "tp_ends"
    /\ heap' = [heap EXCEPT ![loc[t].tp] = add_ends(@, loc[t].end)]
    /\ Goto(t, "tp_flag_arr")
    /\ UNCHANGED <<profiles, clock, loc, out, hist>>
    /\ UNCHANGED <<profileVars, instrVars>>

\* TimeProfile.add, line 79
TpFlagArr(t) ==
    /\ pc[t] = "tp_flag_arr"
    /\ heap' = [heap EXCEPT ![loc[t].tp] = reset_updated_arr(@)]
    /\ Goto(t, "tp_flag_merged")
    /\ UNCHANGED <<profiles, clock, loc, out, hist>>
    /\ UNCHANGED <<profileVars, instrVars>>

\* TimeProfile.add, line 80
TpFlagMerged(t) ==
    /\ pc[t] = "tp_flag_merged"
    /\ heap' = [heap EXCEPT ![loc[t].tp] = reset_updated_merged(@)]
    /\ Goto(t, "exit")
    /\ UNCHANGED <<profiles, clock, loc, out, hist>>
    /\ UNCHANGED <<profileVars, instrVars>>

\* add is left; then the wrapper's finally block ends and the wrapper
\* returns result (line 70) or the pending exception goes on to the caller
Exit(t) ==
    /\ pc[t] = "exit" \/ pc[t] = "w_exit"
    /\ LET l == loc[t]
           o == IF l.mode = "wrapper" THEN WrapperOutcome(l) ELSE AddOutcome(l)
       IN  /\ out' = [out EXCEPT ![t] =
                         [mode |-> l.mode, f |-> l.f,
                          start |-> IF l.mode = "add" THEN l.start ELSE 0,
                          end |-> IF l.mode = "add" THEN l.end ELSE 0,
                          exc |-> o.exc, val |-> o.val, fret |-> l.fret,
                          fexc |-> l.fexc, pre |-> l.pre]]
           /\ hist' = [hist EXCEPT
                         !.calls[t] = @ + 1,
                         !.invoked[l.f] = IF l.mode = "wrapper" THEN @ + 1 ELSE @,
                         !.raised = IF l.mode = "wrapper" /\ l.fexc # "none"
                                    THEN @ + 1 ELSE @,
                         !.added[l.f] = IF l.mode = "add" /\ l.exc = "none"
                                        THEN @ + 1 ELSE @]
    /\ loc' = [loc EXCEPT ![t] = LocInit]
    /\ Goto(t, "idle")
    /\ UNCHANGED <<profiles, heap, clock>>
    /\ UNCHANGED <<profileVars, instrVars>>

\* a clear() that also empties every TimeProfile the registry holds
RegistryClear_profiles(t) ==
    /\ pc[t] = "idle"
    /\ hist.resets < MaxResets
    /\ profiles' = EmptyDict
    /\ heap' = [o \in DOMAIN heap |->
                    IF \E f \in Funcs : profiles[f] = o
                    THEN TimeProfile_clear(heap[o]).tp ELSE heap[o]]
    /\ hist' = [hist EXCEPT !.resets = @ + 1,
                            !.invoked = [f \in Funcs |-> 0],
                            !.added = [f \in Funcs |-> 0],
                            !.installs = [f \in Funcs |-> 0],
                            !.atReset = heap]
    /\ out' = [out EXCEPT ![t] = [OutInit EXCEPT !.mode = "clear"]]
    /\ UNCHANGED <<clock, pc, loc>>
    /\ UNCHANGED <<profileVars, instrVars>>

\* clear(), line 48: profiles.clear(), called between the caller's other calls
RegistryClear(t) ==
    /\ pc[t] = "idle"
    /\ hist.resets < MaxResets
    /\ profiles' = EmptyDict
    /\ hist' = [hist EXCEPT !.resets = @ + 1,
                            !.invoked = [f \in Funcs |-> 0],
                            !.added = [f \in Funcs |-> 0],
                            !.installs = [f \in Funcs |-> 0],
                            !.atReset = heap]
    /\ out' = [out EXCEPT ![t] = [OutInit EXCEPT !.mode = "clear"]]
    /\ UNCHANGED <<heap, clock, pc, loc>>
    /\ UNCHANGED <<profileVars, instrVars>>

(***************************************************************************)
(* A thread reads profiles[f].profile_arr while another is inside add: a   *)
(* step per line of the property and of __update_arr.  np.array(list)      *)
(* copies the list in one step under the interpreter lock.                 *)
(***************************************************************************)
\* the reader takes profiles[f] and enters the property profile_arr
ReadStart(t, limit) ==
    /\ pc[t] = "idle"
    /\ hist.calls[t] < limit
    /\ \E f \in ConcFuncs :
          /\ profiles[f] # NoEntry
          /\ loc' = [loc EXCEPT ![t] = [LocInit EXCEPT !.mode = "profile_arr", !.f = f,
                                                       !.tp = profiles[f]]]
    /\ Goto(t, "r_check")
    /\ UNCHANGED <<profiles, heap, clock, out, hist>>
    /\ UNCHANGED <<profileVars, instrVars>>

\* profile_arr, line 63: if not self.__updated_arr
RCheck(t) ==
    /\ pc[t] = "r_check"
    /\ Goto(t, IF heap[loc[t].tp].updated_arr THEN "r_return" ELSE "r_starts")
    /\ UNCHANGED <<profiles, heap, clock, loc, out, hist>>
    /\ UNCHANGED <<profileVars, instrVars>>

\* __update_arr, line 107
RStarts(t) ==
    /\ pc[t] = "r_starts"
    /\ heap' = [heap EXCEPT ![loc[t].tp].starts_arr = NpArray(heap[loc[t].tp].starts)]
    /\ Goto(t, "r_ends")
    /\ UNCHANGED <<profiles, clock, loc, out, hist>>
    /\ UNCHANGED <<profileVars, instrVars>>

\* __update_arr, line 108
REnds(t) ==
    /\ pc[t] = "r_ends"
    /\ heap' = [heap EXCEPT ![loc[t].tp].ends_arr = NpArray(heap[loc[t].tp].ends)]
    /\ Goto(t, "r_flag")
    /\ UNCHANGED <<profiles, clock, loc, out, hist>>
    /\ UNCHANGED <<profileVars, instrVars>>

\* __update_arr, line 109
RFlag(t) ==
    /\ pc[t] = "r_flag"
    /\ heap' = [heap EXCEPT ![loc[t].tp].updated_arr = TRUE]
    /\ Goto(t, "r_return")
    /\ UNCHANGED <<profiles, clock, loc, out, hist>>
    /\ UNCHANGED <<profileVars, instrVars>>

\* profile_arr, line 65: return self.__starts_arr, self.__ends_arr
RReturn(t) ==
    /\ pc[t] = "r_return"
    /\ out' = [out EXCEPT ![t] =
                  [OutInit EXCEPT !.mode = "profile_arr", !.f = loc[t].f,
                                  !.val = <<heap[loc[t].tp].starts_arr,
                                            heap[loc[t].tp].ends_arr>>]]
    /\ hist' = [hist EXCEPT !.calls[t] = @ + 1]
    /\ loc' = [loc EXCEPT ![t] = LocInit]
    /\ Goto(t, "idle")
    /\ UNCHANGED <<profiles, heap, clock>>
    /\ UNCHANGED <<profileVars, instrVars>>

(***************************************************************************)
(* The reports.  A row holds the name, the number of calls and the three   *)
(* times in ms rounded to two decimals, written as hundredths of a ms.     *)
(***************************************************************************)
\* where key.__name__ stands in the order of strings
NameRank(name) == IF name = "f" THEN 1 ELSE 2

\* round(num / den, 2) in hundredths, for num >= 0 and den > 0: to the
\* nearest, a tie to the even one
Round2(num, den) ==
    LET q == (100 * num) \div den
        r == (100 * num) % den
    IN  IF 2 * r < den THEN q
        ELSE IF 2 * r > den THEN q + 1
        ELSE IF q % 2 = 0 THEN q ELSE q + 1

\* the keys of the dict in the order it iterates them: the order in which
\* they were stored
KeysInOrder(d, h) ==
    LET held == SelectSeq([o \in 1..Len(h) |-> o],
                          LAMBDA o : \E f \in Keys(d) : d[f] = o)
    IN  [i \in 1..Len(held) |-> CHOOSE f \in Keys(d) : d[f] = held[i]]

\* itemgetter(order_by)(row), a name by its place among the names
SortKey(row, order_by) ==
    IF order_by = 0 THEN NameRank(row[1]) ELSE row[order_by + 1]

\* whether row x goes before row y
GoesBefore(x, y, order_by, reverse) ==
    IF reverse THEN SortKey(x, order_by) > SortKey(y, order_by)
    ELSE SortKey(x, order_by) < SortKey(y, order_by)

\* x put into a sorted table behind the rows it does not go before
RECURSIVE InsertRow(_, _, _, _)
InsertRow(x, table, order_by, reverse) ==
    IF table = <<>> THEN <<x>>
    ELSE IF GoesBefore(x, Head(table), order_by, reverse) THEN <<x>> \o table
    ELSE <<Head(table)>> \o InsertRow(x, Tail(table), order_by, reverse)

\* a sort that puts the numeric columns in descending order unless reverse
\* is given
RECURSIVE table_sort_numeric_desc(_, _, _)
table_sort_numeric_desc(table, order_by, reverse) ==
    IF table = <<>> THEN <<>>
    ELSE InsertRow(table[Len(table)],
                   table_sort_numeric_desc(SubSeq(table, 1, Len(table) - 1),
                                           order_by, reverse),
                   order_by, IF order_by = 0 THEN reverse ELSE ~reverse)

\* table.sort(key=itemgetter(order_by), reverse=reverse): stable, rows with
\* equal keys stay in their order
RECURSIVE table_sort(_, _, _)
table_sort(table, order_by, reverse) ==
    IF table = <<>> THEN <<>>
    ELSE InsertRow(table[Len(table)],
                   table_sort(SubSeq(table, 1, Len(table) - 1), order_by, reverse),
                   order_by, reverse)

\* the loop of print_profiles over the keys left; elapsed_arr.max() raises
\* ValueError for a profile without samples (np.sum(elapsed_arr) / 0 before
\* it is nan and raises nothing)
RECURSIVE PrintLoop(_, _, _, _)
PrintLoop(keys, d, h, table) ==
    IF keys = <<>> THEN [heap |-> h, exc |-> "none", val |-> table]
    ELSE LET key == Head(keys)
             o == d[key]
             n == TimeProfile_len(h[o])
             e == TimeProfile_get_elapsed_arr(h[o])
             b == TimeProfile_get_bottleneck(e.tp)
         IN  IF e.val.data = <<>>
             THEN [heap |-> [h EXCEPT ![o] = e.tp], exc |-> "ValueError", val |-> table]
             ELSE PrintLoop(Tail(keys), d, [h EXCEPT ![o] = b.tp],
                            Append(table,
                                   <<key, n,
                                     Round2(SeqSum(e.val.data) * 1000, n),
                                     Round2(SeqMax(e.val.data) * 1000, 1),
                                     Round2(b.val * 1000, 1)>>))

\* print_profiles(order_by, reverse): the objects afterwards and the rows
\* printed
print_profiles(d, h, order_by, reverse) ==
    LET r == PrintLoop(KeysInOrder(d, h), d, h, <<>>)
    IN  IF r.exc # "none" THEN r
        ELSE [r EXCEPT !.val = table_sort(r.val, order_by, reverse)]

\* [profile.min() for profile in values], or max(): the answers so far
RECURSIVE BoundLoop(_, _, _, _, _)
BoundLoop(keys, d, h, which, acc) ==
    IF keys = <<>> THEN [heap |-> h, exc |-> "none", val |-> acc]
    ELSE LET o == d[Head(keys)]
             r == IF which = "min" THEN TimeProfile_min(h[o]) ELSE TimeProfile_max(h[o])
         IN  IF r.exc # "none"
             THEN [heap |-> [h EXCEPT ![o] = r.tp], exc |-> r.exc, val |-> acc]
             ELSE BoundLoop(Tail(keys), d, [h EXCEPT ![o] = r.tp], which,
                            Append(acc, r.val))

\* __get_time_range()
get_time_range(d, h) ==
    IF Keys(d) = {} THEN [heap |-> h, exc |-> "none", val |-> <<0, 1>>]
    ELSE LET lo == BoundLoop(KeysInOrder(d, h), d, h, "min", <<>>)
             hi == BoundLoop(KeysInOrder(d, h), d, lo.heap, "max", <<>>)
         IN  IF lo.exc # "none" THEN [lo EXCEPT !.val = NoneVal]
             ELSE IF hi.exc # "none" THEN [hi EXCEPT !.val = NoneVal]
             ELSE [heap |-> hi.heap, exc |-> "none",
                   val |-> <<SeqMin(lo.val), SeqMax(hi.val)>>]

\* the caller prints the report
PrintProfiles(t) ==
    /\ pc[t] = "idle"
    /\ \E order_by \in 0..4, reverse \in BOOLEAN :
          LET r == print_profiles(profiles, heap, order_by, reverse)
          IN  /\ heap' = r.heap
              /\ ret' = Call("print_profiles", <<order_by, reverse>>, r)
    /\ UNCHANGED <<profiles, clock, pc, loc, out, hist>>
    /\ UNCHANGED <<tp, nclears, classes>>

\* a plot asks for the time range, lines 155 and 190
GetTimeRange(t) ==
    /\ pc[t] = "idle"
    /\ LET r == get_time_range(profiles, heap)
       IN  /\ heap' = r.heap
           /\ ret' = Call("get_time_range", <<>>, r)
    /\ UNCHANGED <<profiles, clock, pc, loc, out, hist>>
    /\ UNCHANGED <<tp, nclears, classes>>

\* one step of a thread inside profile_method's wrapper
WrapperStep(t, rs) ==
    \/ FReturn(t, rs)
    \/ FRaise(t)
    \/ WEnd(t)
    \/ AddCheck(t)
    \/ AddInstall(t)
    \/ AddLookup(t)
    \/ TpCheck(t)
    \/ TpStarts(t)
    \/ TpEnds(t)
    \/ TpFlagArr(t)
    \/ TpFlagMerged(t)
    \/ Exit(t)

(***************************************************************************)
(* The decorators.  The classes are those of test_profile_class_methods    *)
(* and test_profile_ignore: MyClass with two methods and the nested class  *)
(* MySubClass, which has a method and the nested class MySubSubClass with  *)
(* a method.  A callable is <<m, k>>: the member function m under k        *)
(* wrappers of profile_method; the wrapper <<m, k + 1>> records under the  *)
(* callable it wraps, <<m, k>>.                                            *)
(***************************************************************************)
InstrClasses == {"MyClass", "MySubClass", "MySubSubClass"}

InstrMembers ==
    {"MyClass.my_method", "MyClass.my_other_method",
     "MySubClass.my_method", "MySubSubClass.my_method"}

\* the functions inspect.getmembers(cls) yields
MethodsOf(cls) ==
    IF cls = "MyClass" THEN {"MyClass.my_method", "MyClass.my_other_method"}
    ELSE IF cls = "MySubClass" THEN {"MySubClass.my_method"}
    ELSE {"MySubSubClass.my_method"}

\* the classes inspect.getmembers(cls) yields, but for __class__
NestedOf(cls) ==
    IF cls = "MyClass" THEN <<"MySubClass">>
    ELSE IF cls = "MySubClass" THEN <<"MySubSubClass">>
    ELSE <<>>

\* the callables a wrapper can record under
InstrKeys == InstrMembers \X (0..(MaxApply - 1))

\* no decorator applied yet: every attribute is the function itself
ClassesInit ==
    [ignore |-> {},                           \* what profile_ignore has marked
     attrs |-> [m \in InstrMembers |-> 0],     \* wrappers around the class attribute
     applied |-> 0,                           \* decorator applications so far
     decorated |-> FALSE,                     \* profile_class_methods(MyClass) was applied
     direct |-> {},                           \* functions handed to profile_method by the caller
     invokes |-> 0,                           \* invocations so far
     wcalls |-> [m \in InstrMembers |-> 0],    \* invocations of m that went through a wrapper
     after |-> [m \in InstrMembers |-> 0]]     \* invocations of m since MyClass was decorated

\* profile_method without the test of the marker
profile_method_unchecked(ignore, f) == <<f[1], f[2] + 1>>

\* profile_method(f): the marker is an attribute of the function, which
\* @wraps copies to a wrapper; a marked function is returned as it is
profile_method(ignore, f) ==
    IF f[1] \in ignore THEN f ELSE <<f[1], f[2] + 1>>

\* profile_class_methods(cls): the attributes afterwards
RECURSIVE profile_class_methods(_, _, _)
RECURSIVE WalkNested(_, _, _)
profile_class_methods(ignore, attrs, cls) ==
    IF cls \in ignore THEN attrs
    ELSE WalkNested(ignore,
                    [m \in InstrMembers |->
                        IF m \in MethodsOf(cls)
                        THEN profile_method(ignore, <<m, attrs[m]>>)[2]
                        ELSE attrs[m]],
                    NestedOf(cls))

WalkNested(ignore, attrs, nested) ==
    IF nested = <<>> THEN attrs
    ELSE WalkNested(ignore, profile_class_methods(ignore, attrs, Head(nested)),
                    Tail(nested))

\* add(f, start, end) as one call, lines 37-42
add(d, h, f, start, end) ==
    LET h1 == IF d[f] = NoEntry THEN Append(h, TimeProfileNew) ELSE h
        d1 == IF d[f] = NoEntry THEN [d EXCEPT ![f] = Len(h) + 1] ELSE d
        r == TimeProfile_add(h1[d1[f]], start, end)
    IN  [profiles |-> d1, heap |-> [h1 EXCEPT ![d1[f]] = r.tp], exc |-> r.exc]

\* a call of <<m, k>>: the wrappers' finally blocks run from the innermost
\* out, wrapper j + 1 calling add(<<m, j>>, start, end) for j = from..k - 1
RECURSIVE RunWrappers(_, _, _, _, _, _, _)
RunWrappers(d, h, m, from, k, start, end) ==
    IF from >= k THEN [profiles |-> d, heap |-> h]
    ELSE LET r == add(d, h, <<m, from>>, start, end)
         IN  RunWrappers(r.profiles, r.heap, m, from + 1, k, start, end)

\* @profile_class_methods on MyClass, or profile_class_methods(MyClass) again
ProfileClassMethods ==
    /\ classes.applied < MaxApply
    /\ classes' = [classes EXCEPT
                      !.attrs = profile_class_methods(classes.ignore, @, "MyClass"),
                      !.applied = @ + 1,
                      !.decorated = TRUE,
                      !.after = [m \in InstrMembers |-> 0]]
    /\ UNCHANGED <<profileVars, registryVars>>

\* cls.m = profile_method(cls.m) for one member function
ProfileMethod ==
    /\ classes.applied < MaxApply
    /\ \E m \in InstrMembers :
          classes' = [classes EXCEPT
                        !.attrs[m] = profile_method(classes.ignore, <<m, @>>)[2],
                        !.applied = @ + 1,
                        !.direct = @ \cup {m}]
    /\ UNCHANGED <<profileVars, registryVars>>

\* a member function is called through its class attribute
InvokeMember ==
    /\ classes.invokes < MaxInvokes
    /\ \E m \in InstrMembers, now \in PerfCounter :
          LET r == RunWrappers(profiles, heap, m, 0, classes.attrs[m], clock, now)
          IN  /\ profiles' = r.profiles
              /\ heap' = r.heap
              /\ clock' = now
              /\ classes' = [classes EXCEPT
                                !.invokes = @ + 1,
                                !.wcalls[m] = IF classes.attrs[m] > 0 THEN @ + 1 ELSE @,
                                !.after[m] = IF classes.decorated THEN @ + 1 ELSE @]
    /\ UNCHANGED <<pc, loc, out, hist>>
    /\ UNCHANGED profileVars

RegistryInit ==
    /\ classes = ClassesInit
    /\ profiles = EmptyDict
    /\ heap = <<>>
    /\ clock = 0
    /\ pc = [t \in Threads |-> "idle"]
    /\ loc = [t \in Threads |-> LocInit]
    /\ out = [t \in Threads |-> OutInit]
    /\ hist = HistInit

(***************************************************************************)
(* SpecMerge: a TimeProfile constructed from any accepted lists, then      *)
(* queried.  SpecProfile: a TimeProfile() that is added to, cleared and    *)
(* queried.                                                                *)
(***************************************************************************)
InitMerge ==
    /\ Construct
    /\ nclears = 0
    /\ RegistryInit

NextMerge == Query

SpecMerge == InitMerge /\ [][NextMerge]_vars

InitProfile ==
    /\ tp = TimeProfileNew
    /\ ret = NoCall
    /\ nclears = 0
    /\ RegistryInit

NextProfile == Add \/ Clear \/ Query

SpecProfile == InitProfile /\ [][NextProfile]_vars

(***************************************************************************)
(* SpecInit: TimeProfile objects constructed with any arguments, a list or *)
(* None on either side, then added to, cleared and asked for their length  *)
(* and samples.                                                            *)
(***************************************************************************)
NextInit == Reconstruct \/ Add \/ Clear \/ QueryLen \/ QueryProfile

SpecInit == InitProfile /\ [][NextInit]_vars

(***************************************************************************)
(* SpecSquash: a TimeProfile constructed from any accepted lists of at     *)
(* most MaxSqLen timestamps or from the tests' lists, then rescaled.       *)
(***************************************************************************)
InitSquash ==
    /\ ConstructFrom((SqLists \X SqLists) \cup TestInputs)
    /\ nclears = 0
    /\ RegistryInit

NextSquash == QuerySquashedArr \/ QuerySquashedMerged

SpecSquash == InitSquash /\ [][NextSquash]_vars

(***************************************************************************)
(* SpecConc: NThreads threads, each invoking instrumented functions        *)
(* MaxCalls times, their steps interleaved in every way.  SpecSeq: one     *)
(* caller that invokes instrumented functions, calls add itself and        *)
(* clears the registry, one call after the other.                          *)
(***************************************************************************)
InitRegistry ==
    /\ tp = TimeProfileNew
    /\ ret = NoCall
    /\ nclears = 0
    /\ RegistryInit

NextConc ==
    \E t \in Threads :
        \/ Invoke(t, MaxCalls, ConcFuncs, NoSnapshot)
        \/ WrapperStep(t, ConcResults)

SpecConc == InitRegistry /\ [][NextConc]_vars

NextSeq ==
    \/ Invoke(1, MaxSeqCalls, Funcs, Snapshot)
    \/ DirectAdd(1, MaxSeqCalls)
    \/ RegistryClear(1)
    \/ WrapperStep(1, Results)

SpecSeq == InitRegistry /\ [][NextSeq]_vars

(***************************************************************************)
(* SpecReport: a registry as calls of add leave it, one TimeProfile of at  *)
(* most MaxRepLen samples per recorded function, none (after a rejected    *)
(* first record) among them; then the report is printed and the time range *)
(* of the plots is asked for.                                              *)
(***************************************************************************)
\* the samples add has stored in a TimeProfile: starts and ends of equal
\* length, each end >= its start
RepSamples ==
    {in \in UNION {[1..n -> AddTimes] \X [1..n -> AddTimes] : n \in 0..MaxRepLen} :
        \A i \in DOMAIN in[1] : in[2][i] >= in[1][i]}

\* the samples of test_display_profiles
TestSamples == <<<<0, 2>>, <<3, 4>>>>

\* the functions recorded so far, in the order of their first record
RecordOrders == {<<>>, <<"f">>, <<"g">>, <<"f", "g">>, <<"g", "f">>}

InitReport ==
    /\ tp = TimeProfileNew
    /\ ret = NoCall
    /\ nclears = 0
    /\ \E order \in RecordOrders :
          \E samples \in [DOMAIN order -> RepSamples \cup {TestSamples}] :
              /\ heap = [o \in DOMAIN order |->
                             TimeProfileFields(samples[o][1], samples[o][2])]
              /\ profiles = [f \in Funcs |->
                                 IF \E o \in DOMAIN order : order[o] = f
                                 THEN CHOOSE o \in DOMAIN order : order[o] = f
                                 ELSE NoEntry]
    /\ clock = 0
    /\ pc = [t \in Threads |-> "idle"]
    /\ loc = [t \in Threads |-> LocInit]
    /\ out = [t \in Threads |-> OutInit]
    /\ hist = HistInit
    /\ classes = ClassesInit

NextReport == PrintProfiles(1) \/ GetTimeRange(1)

SpecReport == InitReport /\ [][NextReport]_vars
(***************************************************************************)
(* SpecRead: thread 1 records samples with add while thread 2 reads        *)
(* profile_arr of the TimeProfile of f, their steps interleaved in every   *)
(* way.                                                                    *)
(***************************************************************************)
NextRead ==
    \/ DirectAdd(1, MaxSeqCalls)
    \/ AddCheck(1)
    \/ AddInstall(1)
    \/ AddLookup(1)
    \/ TpCheck(1)
    \/ TpStarts(1)
    \/ TpEnds(1)
    \/ TpFlagArr(1)
    \/ TpFlagMerged(1)
    \/ Exit(1)
    \/ ReadStart(2, MaxReads)
    \/ RCheck(2)
    \/ RStarts(2)
    \/ REnds(2)
    \/ RFlag(2)
    \/ RReturn(2)

SpecRead == InitRegistry /\ [][NextRead]_vars

(***************************************************************************)
(* SpecInstr: the classes with up to two of their functions and classes    *)
(* marked by profile_ignore; then profile_class_methods and profile_method are    *)
(* applied and member functions are called, in any order.                  *)
(***************************************************************************)
\* what profile_ignore was applied to in the class bodies: at most two of
\* the functions and classes
Markings == {ms \in SUBSET (InstrClasses \cup InstrMembers) : Cardinality(ms) <= 2}

InitInstr ==
    /\ tp = TimeProfileNew
    /\ ret = NoCall
    /\ nclears = 0
    /\ \E marked \in Markings :
          classes = [ClassesInit EXCEPT !.ignore = marked]
    /\ profiles = [k \in InstrKeys |-> NoEntry]
    /\ heap = <<>>
    /\ clock = 0
    /\ pc = [t \in Threads |-> "idle"]
    /\ loc = [t \in Threads |-> LocInit]
    /\ out = [t \in Threads |-> OutInit]
    /\ hist = HistInit

NextInstr == ProfileClassMethods \/ ProfileMethod \/ InvokeMember

SpecInstr == InitInstr /\ [][NextInstr]_vars

(***************************************************************************)
(* What the claims speak of.                                               *)
(***************************************************************************)
\* the largest timestamp of a list, 0 for the empty list
Hi(l) == IF l = <<>> THEN 0 ELSE SeqMax(l)

\* whether the point p/2 lies in one of the closed intervals [ss[i], es[i]]
Covers(ss, es, p) == \E i \in 1..ZipLen(ss, es) : 2 * ss[i] <= p /\ p <= 2 * es[i]

\* the half-integer points up to the largest timestamp of either list: two
\* unions of closed intervals with integer ends are equal iff they hold the
\* same of these points
Grid(es, em) == 0..(2 * (IF Hi(es) >= Hi(em) THEN Hi(es) ELSE Hi(em)))

\* the length of the union of the intervals: the unit cells [k, k+1] that lie
\* in one of them
UnionLength(ss, es) ==
    Cardinality({k \in 0..(Hi(es) - 1) :
                    \E i \in 1..ZipLen(ss, es) : ss[i] <= k /\ k + 1 <= es[i]})

\* <<sm, em>> is the merged cover of the samples <<ss, es>>
IsMergedCover(ss, es, sm, em) ==
    /\ Len(sm) = Len(em)
    /\ \A k \in 1..Len(sm) : sm[k] <= em[k]
    /\ \A k \in 1..(Len(sm) - 1) : em[k] < sm[k + 1]
    /\ \A p \in Grid(es, em) : Covers(ss, es, p) <=> Covers(sm, em, p)
    /\ \A a, b \in 1..Len(ss) :
          (ss[a] <= es[b] /\ ss[b] <= es[a]) =>
              \E k \in 1..Len(sm) :
                  /\ sm[k] <= ss[a] /\ es[a] <= em[k]
                  /\ sm[k] <= ss[b] /\ es[b] <= em[k]

\* a TimeProfile that holds tp's samples and has answered no query
Fresh == TimeProfileFields(tp.starts, tp.ends)

(***************************************************************************)
(* C4: profile_merged returns the merged cover of the recorded samples:    *)
(* ascending, pairwise disjoint segments whose union is the union of the   *)
(* samples, overlapping or touching samples in one segment; [(0,3),(1,4)]  *)
(* gives [(0,4)] and with (6,8) added [(0,4),(6,8)].                       *)
(***************************************************************************)
C4_MergedCover ==
    ret.op = "profile_merged" =>
        /\ ret.exc = "none"
        /\ IsMergedCover(tp.starts, tp.ends, ret.val[1], ret.val[2])
        /\ (tp.starts = <<0, 1>> /\ tp.ends = <<3, 4>>) => ret.val = <<<<0>>, <<4>>>>
        /\ (tp.starts = <<0, 1, 6>> /\ tp.ends = <<3, 4, 8>>) =>
               ret.val = <<<<0, 6>>, <<4, 8>>>>

C4_Witness ==
    /\ ret.op = "profile_merged"
    /\ tp.starts = <<0, 1, 6>> /\ tp.ends = <<3, 4, 8>>
    /\ ret.val = <<<<0, 6>>, <<4, 8>>>>

(***************************************************************************)
(* C5: get_bottleneck returns the length of the union of the recorded      *)
(* intervals, and 0 without raising on a profile with no samples.          *)
(***************************************************************************)
C5_BottleneckIsUnionLength ==
    ret.op = "get_bottleneck" =>
        /\ ret.exc = "none"
        /\ ret.val = UnionLength(tp.starts, tp.ends)
        /\ tp.starts = <<>> => ret.val = 0

C5_Witness ==
    /\ ret.op = "get_bottleneck"
    /\ tp.starts = <<0, 1, 6>> /\ tp.ends = <<3, 4, 8>>
    /\ ret.val = 6

(***************************************************************************)
(* C8: add(start, end) with end < start raises and leaves the TimeProfile  *)
(* as it was (samples and caches, hence every later answer); add with      *)
(* end = start returns and appends the sample.                             *)
(***************************************************************************)
C8_InvalidAddRejected ==
    [][ret'.op = "add" =>
          /\ ret'.args[2] < ret'.args[1] => (ret'.exc = "Exception" /\ tp' = tp)
          /\ ret'.args[2] = ret'.args[1] =>
                /\ ret'.exc = "none"
                /\ tp'.starts = Append(tp.starts, ret'.args[1])
                /\ tp'.ends = Append(tp.ends, ret'.args[2])]_vars

C8_Witness ==
    /\ ret.op = "add" /\ ret.args[2] < ret.args[1] /\ ret.exc = "Exception"
    /\ TimeProfile_len(tp) > 0
    /\ tp.updated_merged

(***************************************************************************)
(* C10: every derived view answers as a fresh TimeProfile holding the      *)
(* current samples would, whatever add, clear and queries came before;     *)
(* after clear the length is 0 and the merged cover is empty.              *)
(***************************************************************************)
C10_ViewsAreCurrent ==
    /\ ret.op = "profile_arr" =>
          ret.val = TimeProfile_profile_arr(Fresh).val
    /\ ret.op = "get_elapsed_arr" =>
          ret.val = TimeProfile_get_elapsed_arr(Fresh).val
    /\ ret.op = "profile_merged" =>
          ret.val = TimeProfile_profile_merged(Fresh).val
    /\ ret.op = "get_bottleneck" =>
          ret.val = TimeProfile_get_bottleneck(Fresh).val
    /\ ret.op = "min" =>
          /\ ret.exc = TimeProfile_min(Fresh).exc
          /\ ret.val = TimeProfile_min(Fresh).val
    /\ ret.op = "max" =>
          /\ ret.exc = TimeProfile_max(Fresh).exc
          /\ ret.val = TimeProfile_max(Fresh).val
    /\ ret.op = "clear" =>
          /\ TimeProfile_len(tp) = 0
          /\ TimeProfile_profile_merged(tp).val = <<<<>>, <<>>>>

\* a merged cover is answered after a clear and an add, while the array
\* cache still holds the two samples of before the clear
C10_Witness ==
    /\ ret.op = "profile_merged"
    /\ nclears = 1
    /\ TimeProfile_len(tp) = 1
    /\ ~tp.updated_arr
    /\ tp.starts_arr.kind = "ndarray"
    /\ Len(tp.starts_arr.data) = 2


(***************************************************************************)
(* What the claims about the registry speak of.                            *)
(***************************************************************************)
\* every call made so far has returned to its caller
AllIdle == \A t \in Threads : pc[t] = "idle"

\* the samples a registry (its dict d and objects h) holds for f
SamplesOf(d, h, f) ==
    IF d[f] = NoEntry THEN <<<<>>, <<>>>> ELSE TimeProfile_profile(h[d[f]])

\* the bag of the pairs (starts[i], ends[i]) of an object
RecordedPairs(o) ==
    LET n == ZipLen(o.starts, o.ends)
        ps == {<<o.starts[i], o.ends[i]>> : i \in 1..n}
    IN  [p \in ps |-> Cardinality({i \in 1..n : <<o.starts[i], o.ends[i]>> = p})]

(***************************************************************************)
(* C1: when NThreads threads have each invoked the instrumented function   *)
(* MaxCalls times, every call returning normally, the registry holds a     *)
(* TimeProfile for it of length NThreads * MaxCalls.                       *)
(***************************************************************************)
C1_NoSampleLost ==
    (AllIdle /\ hist.raised = 0 /\ hist.invoked["f"] = NThreads * MaxCalls) =>
        /\ profiles["f"] # NoEntry
        /\ TimeProfile_len(heap[profiles["f"]]) = NThreads * MaxCalls

(***************************************************************************)
(* C2: between two resets at most one TimeProfile is stored under a key,   *)
(* and no lookup of profiles[f] finds the entry missing.                   *)
(***************************************************************************)
C2_OneProfilePerKey ==
    /\ \A f \in Funcs : hist.installs[f] <= 1
    /\ hist.keyerrors = 0

(***************************************************************************)
(* C3: once all TimeProfile.add calls on an object have completed, its     *)
(* starts and ends have equal length and the pairs (starts[i], ends[i])    *)
(* are, as a multiset, the pairs that were passed to add.                  *)
(***************************************************************************)
C3_PairsKept ==
    AllIdle =>
        \A o \in 1..Len(heap) :
            /\ Len(heap[o].starts) = Len(heap[o].ends)
            /\ RecordedPairs(heap[o]) = hist.passed[o]

(***************************************************************************)
(* C6: an invocation whose function raises records one sample under the    *)
(* function's key, leaves the other entries alone, and hands the caller    *)
(* the function's own exception.                                           *)
(***************************************************************************)
C6_RaisingCallRecorded ==
    (pc[1] = "idle" /\ out[1].mode = "wrapper" /\ out[1].fexc # "none") =>
        LET f == out[1].f
            before == SamplesOf(out[1].pre.profiles, out[1].pre.heap, f)
            after == SamplesOf(profiles, heap, f)
        IN  /\ out[1].exc = out[1].fexc
            /\ profiles[f] # NoEntry
            /\ Len(after[1]) = Len(before[1]) + 1
            /\ Len(after[2]) = Len(before[2]) + 1
            /\ SubSeq(after[1], 1, Len(before[1])) = before[1]
            /\ SubSeq(after[2], 1, Len(before[2])) = before[2]
            /\ \A g \in Funcs \ {f} :
                  /\ profiles[g] = out[1].pre.profiles[g]
                  /\ SamplesOf(profiles, heap, g) =
                        SamplesOf(out[1].pre.profiles, out[1].pre.heap, g)

C6_Witness ==
    /\ pc[1] = "idle" /\ out[1].mode = "wrapper"
    /\ out[1].fexc = "FExc" /\ out[1].exc = "FExc"
    /\ out[1].pre.profiles[out[1].f] # NoEntry
    /\ Len(SamplesOf(profiles, heap, out[1].f)[1]) = 2

(***************************************************************************)
(* C7: an invocation that returns normally hands the caller the value the  *)
(* function returned and adds one sample to the profile keyed by the       *)
(* function; after k invocations in a row the function has an entry of     *)
(* length k.                                                               *)
(***************************************************************************)
C7_ReturnAndOneSample ==
    (pc[1] = "idle" /\ out[1].mode = "wrapper" /\ out[1].fexc = "none") =>
        LET f == out[1].f
            before == SamplesOf(out[1].pre.profiles, out[1].pre.heap, f)
            after == SamplesOf(profiles, heap, f)
        IN  /\ out[1].exc = "none"
            /\ out[1].val = out[1].fret
            /\ profiles[f] # NoEntry
            /\ Len(after[1]) = Len(before[1]) + 1
            /\ Len(after[2]) = Len(before[2]) + 1
            /\ TimeProfile_len(heap[profiles[f]]) = hist.invoked[f] + hist.added[f]
            /\ \A g \in Funcs \ {f} :
                  /\ profiles[g] = out[1].pre.profiles[g]
                  /\ SamplesOf(profiles, heap, g) =
                        SamplesOf(out[1].pre.profiles, out[1].pre.heap, g)

C7_Witness ==
    /\ pc[1] = "idle" /\ out[1].mode = "wrapper"
    /\ out[1].exc = "none" /\ out[1].val = "r2"
    /\ hist.invoked[out[1].f] = 2 /\ hist.added[out[1].f] = 0
    /\ TimeProfile_len(heap[profiles[out[1].f]]) = 2

(***************************************************************************)
(* C9: add(f, start, end) with end < start is rejected and leaves the      *)
(* registry as it was: the same keys, the same contents of every           *)
(* TimeProfile, no new entry for f.                                        *)
(***************************************************************************)
C9_RejectedAddLeavesRegistry ==
    (pc[1] = "idle" /\ out[1].mode = "add" /\ out[1].end < out[1].start) =>
        /\ out[1].exc = "Exception"
        /\ Keys(profiles) = Keys(out[1].pre.profiles)
        /\ \A f \in Funcs :
              SamplesOf(profiles, heap, f) =
                  SamplesOf(out[1].pre.profiles, out[1].pre.heap, f)

(***************************************************************************)
(* C14: on a TimeProfile with samples min() returns the smallest recorded  *)
(* start and max() the largest recorded end, whatever the insertion order  *)
(* and the adds and queries before; on a TimeProfile without samples       *)
(* (fresh or cleared) both raise.                                          *)
(***************************************************************************)
C14_MinMaxOfSamples ==
    /\ ret.op = "min" =>
          IF tp.starts = <<>>
          THEN ret.exc # "none"
          ELSE /\ ret.exc = "none"
               /\ \E i \in DOMAIN tp.starts : ret.val = tp.starts[i]
               /\ \A i \in DOMAIN tp.starts : ret.val <= tp.starts[i]
    /\ ret.op = "max" =>
          IF tp.ends = <<>>
          THEN ret.exc # "none"
          ELSE /\ ret.exc = "none"
               /\ \E i \in DOMAIN tp.ends : ret.val = tp.ends[i]
               /\ \A i \in DOMAIN tp.ends : ret.val >= tp.ends[i]

\* min() answers 0 for the samples (1,1), (0,0), added in that order after a
\* clear
C14_Witness ==
    /\ ret.op = "min" /\ ret.exc = "none" /\ ret.val = 0
    /\ tp.starts = <<1, 0>>
    /\ nclears = 1

(***************************************************************************)
(* C13: get_squashed_arr(min, max) and get_squashed_merged(min, max)       *)
(* raise whenever max = min, whatever the profile holds.                   *)
(***************************************************************************)
C13_DegenerateRangeFails ==
    (ret.op \in {"get_squashed_arr", "get_squashed_merged"}
        /\ ret.args[2] = ret.args[1]) => ret.exc # "none"

(***************************************************************************)
(* C19: for max # min get_squashed_arr(min, max) returns, in insertion     *)
(* order, (start - min)/(max - min) and (end - min)/(max - min) of every   *)
(* sample, not clamped to [0, 1]: [(0,3),(1,4)] over (0,4) gives (0, 3/4), *)
(* (1/4, 1) and over (2,4) gives (-1, 1/2), (-1/2, 1).                     *)
(***************************************************************************)
C19_SquashedIsLinearMap ==
    (ret.op = "get_squashed_arr" /\ ret.args[2] # ret.args[1]) =>
        LET min == ret.args[1]
            max == ret.args[2]
            IsQuotient(v, x) == v.den > 0 /\ v.num * (max - min) = (x - min) * v.den
        IN  /\ ret.exc = "none"
            /\ Len(ret.val[1].data) = Len(tp.starts)
            /\ Len(ret.val[2].data) = Len(tp.ends)
            /\ \A i \in DOMAIN tp.starts : IsQuotient(ret.val[1].data[i], tp.starts[i])
            /\ \A i \in DOMAIN tp.ends : IsQuotient(ret.val[2].data[i], tp.ends[i])
            /\ (tp.starts = <<0, 1>> /\ tp.ends = <<3, 4>> /\ ret.args = <<0, 4>>) =>
                  /\ ret.val[1].data = <<[num |-> 0, den |-> 1], [num |-> 1, den |-> 4]>>
                  /\ ret.val[2].data = <<[num |-> 3, den |-> 4], [num |-> 1, den |-> 1]>>
            /\ (tp.starts = <<0, 1>> /\ tp.ends = <<3, 4>> /\ ret.args = <<2, 4>>) =>
                  /\ ret.val[1].data = <<[num |-> -1, den |-> 1], [num |-> -1, den |-> 2]>>
                  /\ ret.val[2].data = <<[num |-> 1, den |-> 2], [num |-> 1, den |-> 1]>>

C19_Witness ==
    /\ ret.op = "get_squashed_arr" /\ ret.args = <<2, 4>>
    /\ tp.starts = <<0, 1>> /\ tp.ends = <<3, 4>>
    /\ ret.val[1].data[2] = [num |-> -1, den |-> 2]

(***************************************************************************)
(* C15: in every state reached through the constructor (any arguments, an  *)
(* empty list or None on one side among them), add and clear, starts and   *)
(* ends are lists of equal length with ends[i] >= starts[i]; a constructor *)
(* call with lists of different lengths or with a pair end < start raises. *)
(***************************************************************************)
C15_EqualLengthsValidPairs ==
    /\ ~tp.ends_is_None
    /\ Len(tp.starts) = Len(tp.ends)
    /\ \A i \in 1..ZipLen(tp.starts, tp.ends) : tp.ends[i] >= tp.starts[i]
    /\ ret.op = "init" =>
          LET starts == ret.args[1]
              ends == ret.args[2]
          IN  (starts.given /\ ends.given /\
                  (\/ Len(starts.list) # Len(ends.list)
                   \/ \E i \in 1..ZipLen(starts.list, ends.list) :
                          ends.list[i] < starts.list[i]))
              => ret.exc # "none"

Ascending(table, order_by) ==
    \A i \in 1..(Len(table) - 1) :
        SortKey(table[i], order_by) <= SortKey(table[i + 1], order_by)

\* the rows are in descending order of the column
Descending(table, order_by) ==
    \A i \in 1..(Len(table) - 1) :
        SortKey(table[i], order_by) >= SortKey(table[i + 1], order_by)

\* a report was printed
Printed == ret.op = "print_profiles" /\ ret.exc = "none"

C18_EmptyProfileReported ==
    ret.op \in {"print_profiles", "get_time_range"} => ret.exc = "none"

(***************************************************************************)
(* What the claims about the decorators speak of.                          *)
(***************************************************************************)
\* the samples recorded under the callable <<m, k>>
SamplesUnder(m, k) ==
    IF profiles[<<m, k>>] = NoEntry THEN 0
    ELSE TimeProfile_len(heap[profiles[<<m, k>>]])

\* the samples recorded for m, over all entries that stand for it
RECURSIVE SamplesUpTo(_, _)
SamplesUpTo(m, k) ==
    IF k < 0 THEN 0 ELSE SamplesUnder(m, k) + SamplesUpTo(m, k - 1)

TotalSamples(m) == SamplesUpTo(m, MaxApply - 1)

\* the class a member function is defined in
ClassOf(m) == CHOOSE c \in InstrClasses : m \in MethodsOf(c)

\* the classes c lies in, c itself among them
Enclosing(c) ==
    IF c = "MyClass" THEN {"MyClass"}
    ELSE IF c = "MySubClass" THEN {"MyClass", "MySubClass"}
    ELSE InstrClasses

\* m is marked, or lies in a marked class
Ignored(m) ==
    m \in classes.ignore \/ Enclosing(ClassOf(m)) \cap classes.ignore # {}

(***************************************************************************)
(* C11: a second application of profile_class_methods or profile_method    *)
(* does not wrap a function again: it runs at most one timing wrapper per  *)
(* invocation, and after k invocations through the wrapper the registry    *)
(* holds k samples for it, over all its entries.                           *)
(***************************************************************************)
C11_WrappedOnce ==
    \A m \in InstrMembers :
        /\ classes.attrs[m] <= 1
        /\ TotalSamples(m) = classes.wcalls[m]

(***************************************************************************)
(* C12: once profile_class_methods is applied to MyClass, a function       *)
(* marked by profile_ignore, or lying in a marked class however deep below *)
(* the marker, has no registry entry and no sample however often it is     *)
(* called, while every call of an unmarked function outside marked classes *)
(* is recorded under the function.  (A function the caller hands to        *)
(* profile_method itself is decorated on its own account.)                 *)
(***************************************************************************)
C12_IgnoredNotRecorded ==
    classes.decorated =>
        \A m \in InstrMembers :
            IF Ignored(m)
            THEN (m \in classes.direct => m \in classes.ignore) =>
                     \A k \in 0..(MaxApply - 1) : profiles[<<m, k>>] = NoEntry
            ELSE /\ classes.attrs[m] >= 1
                 /\ SamplesUnder(m, 0) >= classes.after[m]
                 /\ classes.after[m] > 0 => profiles[<<m, 0>>] # NoEntry

\* my_other_method and MySubClass are marked; after the decorator the
\* method of MySubSubClass and my_method of MyClass were called: the one
\* left nothing, the other a sample
C12_Witness ==
    /\ classes.decorated
    /\ classes.ignore = {"MyClass.my_other_method", "MySubClass"}
    /\ classes.after["MySubSubClass.my_method"] = 1
    /\ classes.after["MyClass.my_method"] = 1
    /\ Len(heap) = 1
    /\ SamplesUnder("MyClass.my_method", 0) = 1

(***************************************************************************)
(* C20: a read of profile_arr that runs while add is running returns       *)
(* starts and ends of equal length, and once both have finished the array  *)
(* cache is marked up to date only if it holds every recorded sample.      *)
(***************************************************************************)
C20_ConsistentSnapshot ==
    /\ (pc[2] = "idle" /\ out[2].mode = "profile_arr") =>
          Len(out[2].val[1].data) = Len(out[2].val[2].data)
    /\ AllIdle =>
          \A o \in 1..Len(heap) :
              heap[o].updated_arr =>
                  /\ heap[o].starts_arr.data = heap[o].starts
                  /\ heap[o].ends_arr.data = heap[o].ends

\* every recorded sample has end >= start
ValidSamples(self) ==
    /\ Len(self.starts) = Len(self.ends)
    /\ \A k \in 1..Len(self.starts) : self.starts[k] <= self.ends[k]

\* the samples of a TimeProfile as TimeProfiler keeps them: a list of pairs
PairsOf(self) == [k \in 1..Len(self.starts) |-> <<self.starts[k], self.ends[k]>>]

(***************************************************************************)
(* C21: for every list of samples with end >= start the three bottleneck   *)
(* implementations return the same value: the one-pass sweep of the first  *)
(* TimeProfile.get_bottleneck, the sum over the merged cover of the        *)
(* package's TimeProfile.get_bottleneck, and                               *)
(* TimeProfiler.__calculate_bottleneck.                                    *)
(***************************************************************************)
C21_ThreeBottlenecksAgree ==
    ValidSamples(tp) =>
        LET sweep == TimeProfile0_get_bottleneck(Fresh)
            cover == TimeProfile_get_bottleneck(Fresh)
            calc == calculate_bottleneck(PairsOf(tp))
        IN  /\ sweep.exc = "none" /\ cover.exc = "none"
            /\ sweep.val = cover.val
            /\ calc = cover.val
            /\ ret.op = "get_bottleneck" => ret.val = sweep.val /\ ret.val = calc

C21_Witness ==
    /\ ret.op = "get_bottleneck"
    /\ ValidSamples(tp)
    /\ tp.starts = <<2, 0, 1>> /\ tp.ends = <<3, 0, 3>>
    /\ ret.val = 2
    /\ TimeProfile0_get_bottleneck(Fresh).val = 2
    /\ calculate_bottleneck(PairsOf(tp)) = 2

(***************************************************************************)
(* C22: in every result of profile_merged on a profile of n valid samples  *)
(* each segment has start <= end, the end of segment k is less than the    *)
(* start of segment k+1, there are at most n segments, and when n > 0 the  *)
(* first segment starts at min() and the last segment ends at max().       *)
(***************************************************************************)
C22_MergedSegments ==
    (ret.op = "profile_merged" /\ ValidSamples(tp)) =>
        LET sm == ret.val[1]
            em == ret.val[2]
            n == TimeProfile_len(tp)
        IN  /\ Len(sm) = Len(em)
            /\ \A k \in 1..Len(sm) : sm[k] <= em[k]
            /\ \A k \in 1..(Len(sm) - 1) : em[k] < sm[k + 1]
            /\ Len(sm) <= n
            /\ n > 0 =>
                   /\ Len(sm) >= 1
                   /\ TimeProfile_min(tp).exc = "none"
                   /\ TimeProfile_max(tp).exc = "none"
                   /\ sm[1] = TimeProfile_min(tp).val
                   /\ em[Len(em)] = TimeProfile_max(tp).val

C22_Witness ==
    /\ ret.op = "profile_merged"
    /\ ValidSamples(tp)
    /\ tp.starts = <<2, 0, 1>> /\ tp.ends = <<3, 0, 3>>
    /\ ret.val = <<<<0, 1>>, <<0, 3>>>>
    /\ TimeProfile_min(tp).val = 0
    /\ TimeProfile_max(tp).val = 3

\* the orders in which n samples can be added: the permutations of 1..n
Orders(n) == Permutations(1..n)

\* a TimeProfile() to which tp's samples are added in the order p
AddedInOrder(p) ==
    TimeProfileFields([k \in 1..Len(tp.starts) |-> tp.starts[p[k]]],
                      [k \in 1..Len(tp.ends) |-> tp.ends[p[k]]])

\* sorting the starts and the ends apart pairs some start with the end of
\* another sample
PairingDropped(self) ==
    \E k \in 1..Len(self.starts) :
        \A i \in 1..Len(self.starts) :
            <<sorted(self.starts)[k], sorted(self.ends)[k]>> # <<self.starts[i], self.ends[i]>>

(***************************************************************************)
(* C23: profile_merged and get_bottleneck depend only on the multiset of   *)
(* recorded samples: the same valid samples added in any order give the    *)
(* same merged cover and the same bottleneck, although the sweep sorts     *)
(* starts and ends independently and drops the pairing of each start with  *)
(* its end.                                                                *)
(***************************************************************************)
C23_OrderIndependent ==
    ValidSamples(tp) =>
        /\ ret.op = "profile_merged" =>
               \A p \in Orders(Len(tp.starts)) :
                   TimeProfile_profile_merged(AddedInOrder(p)).val = ret.val
        /\ ret.op = "get_bottleneck" =>
               \A p \in Orders(Len(tp.starts)) :
                   TimeProfile_get_bottleneck(AddedInOrder(p)).val = ret.val

C23_Witness ==
    /\ ret.op = "profile_merged"
    /\ ValidSamples(tp)
    /\ tp.starts = <<1, 0, 3>> /\ tp.ends = <<2, 3, 3>>
    /\ PairingDropped(tp)
    /\ ret.val = <<<<0>>, <<3>>>>
    /\ TimeProfile_profile_merged(AddedInOrder(<<3, 1, 2>>)).val = ret.val


=============================================================================
